---- MODULE Spec2Model ----
\* A model of AsyncPipeline (demos/common/pipelines/src/async_pipeline.cpp):
\* one caller thread that calls submitData, waitForData and getResult, and the
\* completion callbacks that the execution backend runs on its own threads.
\* Every step between two lock/unlock points of `mtx` is one action, so that
\* the accesses made with and without the mutex are visible in the model.
EXTENDS Integers, Sequences, FiniteSets, TLC

\* ---------------------------------------------------------------- bounds

\* cnnConfig.maxAsyncRequests: the number of infer requests of the pool.
PoolSize == 2

\* The largest value of the frame counters (INT64_MAX in the program).
MaxFrameId == 3

\* The smallest value of the frame counters (INT64_MIN in the program).
MinFrameId == (0 - MaxFrameId) - 1

\* The number of accepted submissions a run of the model makes: enough to
\* take the input counter over its largest value and to reuse the number 0.
MaxSubmits == MaxFrameId + 2

\* The exceptions a failing callback draws from.
Errors == {"e1", "e2"}

\* ------------------------------------------------------------ constants

\* submitData's return value when no request is idle.
REJECTED == -1

\* An empty std::exception_ptr.
Null == "null"

\* An empty std::shared_ptr<MetaData>.
NoMeta == 0

\* The metadata handles: the caller passes an object of its own with every
\* frame, so the n-th accepted submission carries handle n and a result that
\* carries another submission's metadata is always told apart.
Metas == 1..MaxSubmits
Free == "free"
Caller == "caller"
Callback == "callback"

Slots == 1..PoolSize

\* A default-constructed InferenceResult (retVal before anything is moved in).
EmptyResult == [frameId |-> -1, metaData |-> NoMeta]

\* No completion callback is pending on a request / runs in the critical section.
NoCallback == [frameID |-> -1, metaData |-> NoMeta, request |-> 0, phase |-> "none"]

\* No shared variable was touched by the last step.
NoAccess == [who |-> "none", vars |-> {}]

VARIABLES
    inputFrameId,               \* next frame id submitData hands out
    outputFrameId,              \* frame id getInferenceResult looks for
    completedInferenceResults,  \* frame id -> InferenceResult
    callbackException,          \* Null or the stored exception
    idle,                       \* the pool: request -> idle flag
    mtx,                        \* who holds AsyncPipeline::mtx
    pc,                         \* where the caller thread is
    frameID,                    \* submitData: local frameID
    request,                    \* submitData: local request
    metaData,                   \* submitData: parameter metaData
    retVal,                     \* getInferenceResult: local retVal
    submitRet,                  \* at "sub_return": what submitData returns
    thrown,                     \* at "wait_exit": what waitForData throws (Null: nothing)
    inflight,                   \* request -> the callback registered and started on it
    cb,                         \* the callback that holds the mutex
    accepted,                   \* history: <<frameId, metaData>> of accepted submissions
    returned,                   \* history: the non-empty results getResult returned
    failures,                   \* history: the exceptions callbacks caught, in order
    done,                       \* history: n-th accepted submission -> how its callback ended
    lastAcc                     \* the shared variables the last step touched, and who did

vars == <<inputFrameId, outputFrameId, completedInferenceResults, callbackException,
          idle, mtx, pc, frameID, request, metaData, retVal, submitRet, thrown,
          inflight, cb, accepted, returned, failures, done, lastAcc>>

pipeVars == <<inputFrameId, outputFrameId, completedInferenceResults, callbackException, idle>>
callerVars == <<frameID, request, metaData, retVal, submitRet, thrown>>
histVars == <<accepted, returned, failures, done>>

\* ------------------------------------------------------------- helpers

\* std::map::emplace: inserts only when the key is not there yet.
Emplace(m, k, v) ==
    IF k \in DOMAIN m THEN m
    ELSE [x \in DOMAIN m \cup {k} |-> IF x = k THEN v ELSE m[x]]

\* std::map::erase of one key.
Erase(m, k) == [x \in DOMAIN m \ {k} |-> m[x]]

EmptyMap == [x \in {} |-> EmptyResult]

\* InferenceResult::IsEmpty.
IsEmpty(r) == r = EmptyResult

\* RequestsPool::isIdleRequestAvailable.
isIdleRequestAvailable == \E r \in Slots : idle[r]

\* `id++; if (id < 0) id = 0;` on a signed counter. Incrementing the largest
\* value overflows a signed integer, which is undefined: a build that wraps and
\* then tests the sign gives 0, a build that folds the test into `old < -1`
\* leaves the wrapped, negative value.
Increment(id) ==
    IF id = MaxFrameId THEN {0, MinFrameId}
    ELSE IF id + 1 < 0 THEN {0}
    ELSE {id + 1}

\* The wait predicate of waitForData.
WaitPredicate ==
    \/ callbackException # Null
    \/ isIdleRequestAvailable
    \/ outputFrameId \in DOMAIN completedInferenceResults

Access(who, vs) == [who |-> who, vars |-> vs]

\* ---------------------------------------------------------------- Init

Init ==
    /\ inputFrameId = 0
    /\ outputFrameId = 0
    /\ completedInferenceResults = EmptyMap
    /\ callbackException = Null
    /\ idle = [r \in Slots |-> TRUE]
    /\ mtx = Free
    /\ pc = "idle"
    /\ frameID = -1
    /\ request = 0
    /\ metaData = NoMeta
    /\ retVal = EmptyResult
    /\ submitRet = -1
    /\ thrown = Null
    /\ inflight = [r \in Slots |-> NoCallback]
    /\ cb = NoCallback
    /\ accepted = <<>>
    /\ returned = <<>>
    /\ failures = <<>>
    /\ done = EmptyMap
    /\ lastAcc = NoAccess

\* ---------------------------------------------------------- submitData

\* RequestsPool::getIdleRequest: the first idle request of the pool, marked
\* busy (requests are interchangeable, so the choice of the first loses nothing).
getIdleRequest(r) ==
    /\ idle[r]
    /\ \A q \in Slots : q < r => ~idle[q]
    /\ idle' = [idle EXCEPT ![r] = FALSE]

\* SubmitAcquire without `if (!request) return -1`: the submission goes on
\* with a request also when none is idle.
SubmitAcquireNoReject(m) ==
    /\ pc = "idle"
    /\ Len(accepted) < MaxSubmits
    /\ m = Len(accepted) + 1
    /\ \E r \in Slots :
          /\ \/ getIdleRequest(r)
             \/ (~isIdleRequestAvailable /\ r = 1 /\ UNCHANGED idle)
          /\ request' = r
    /\ pc' = "sub_start"
    /\ frameID' = inputFrameId
    /\ metaData' = m
    /\ lastAcc' = Access(Caller, {"inputFrameId", "idle"})
    /\ UNCHANGED <<inputFrameId, outputFrameId, completedInferenceResults,
                   callbackException, mtx, retVal, submitRet, thrown, inflight, cb,
                   histVars>>

\* SubmitAcquire with the increment of line 126 moved before the test of
\* line 91: a rejected call uses up a frame id.
SubmitAcquireCountsRejected(m) ==
    /\ pc = "idle"
    /\ Len(accepted) < MaxSubmits
    /\ m = Len(accepted) + 1
    /\ \/ /\ \E r \in Slots :
                /\ getIdleRequest(r)
                /\ request' = r
          /\ pc' = "sub_start"
          /\ frameID' = inputFrameId
          /\ metaData' = m
          /\ UNCHANGED <<submitRet, inputFrameId>>
       \/ /\ ~isIdleRequestAvailable
          /\ pc' = "sub_return"
          /\ submitRet' = REJECTED
          /\ \E nxt \in Increment(inputFrameId) : inputFrameId' = nxt
          /\ UNCHANGED <<idle, request, frameID, metaData>>
    /\ lastAcc' = Access(Caller, {"inputFrameId", "idle"})
    /\ UNCHANGED <<outputFrameId, completedInferenceResults,
                   callbackException, mtx, retVal, thrown, inflight, cb,
                   histVars>>

\* Lines 87-92: `auto frameID = inputFrameId`, then take an idle request or
\* return -1.
SubmitAcquire(m) ==
    /\ pc = "idle"
    /\ Len(accepted) < MaxSubmits
    /\ m = Len(accepted) + 1
    /\ \/ /\ \E r \in Slots :
                /\ getIdleRequest(r)
                /\ request' = r
          /\ pc' = "sub_start"
          /\ frameID' = inputFrameId
          /\ metaData' = m
          /\ UNCHANGED submitRet
       \/ /\ ~isIdleRequestAvailable
          /\ pc' = "sub_return"
          /\ submitRet' = REJECTED
          /\ UNCHANGED <<idle, request, frameID, metaData>>
    /\ lastAcc' = Access(Caller, {"inputFrameId", "idle"})
    /\ UNCHANGED <<inputFrameId, outputFrameId, completedInferenceResults,
                   callbackException, mtx, retVal, thrown, inflight, cb,
                   histVars>>

\* Lines 94-131: preprocess, SetCompletionCallback (the callback captures
\* frameID, request and metaData by value), inputFrameId++, StartAsync, return.
\* model->preprocess and StartAsync are taken to return normally. None of
\* these statements touches what a callback touches, so they are one step.
SubmitStart ==
    /\ pc = "sub_start"
    /\ inflight' = [inflight EXCEPT ![request] =
            [frameID |-> frameID, metaData |-> metaData, request |-> request,
             phase |-> "started"]]
    /\ \E nxt \in Increment(inputFrameId) : inputFrameId' = nxt
    /\ accepted' = Append(accepted, [frameId |-> frameID, metaData |-> metaData])
    /\ submitRet' = frameID
    /\ pc' = "sub_return"
    /\ frameID' = -1
    /\ metaData' = NoMeta
    /\ request' = 0
    /\ lastAcc' = Access(Caller, {"inputFrameId"})
    /\ UNCHANGED <<outputFrameId, completedInferenceResults, callbackException, idle,
                   mtx, retVal, thrown, cb, returned, failures, done>>

\* Lines 92 and 131: submitData has returned submitRet to the caller.
SubmitReturn ==
    /\ pc = "sub_return"
    /\ pc' = "idle"
    /\ submitRet' = REJECTED
    /\ lastAcc' = NoAccess
    /\ UNCHANGED <<pipeVars, mtx, frameID, request, metaData, retVal, thrown,
                   inflight, cb, histVars>>

\* ------------------------------------------------- completion callback

\* Line 102: the backend has finished the request and runs its callback,
\* which takes the mutex.
CallbackLock(r) ==
    /\ inflight[r].phase = "started"
    /\ mtx = Free
    /\ mtx' = Callback
    /\ cb' = [inflight[r] EXCEPT !.phase = "try"]
    /\ inflight' = [inflight EXCEPT ![r] = NoCallback]
    /\ lastAcc' = NoAccess
    /\ UNCHANGED <<pipeVars, pc, callerVars, histVars>>

\* RequestsPool::setRequestIdle.
setRequestIdle(r) == idle' = [idle EXCEPT ![r] = TRUE]

\* The callback of the n-th accepted submission (which carries handle n) has
\* left its try block: "ok" past line 115, "failcopy" by a throw before the
\* result was stored, "failrelease" by a throw after it.
Ended(c, how) == [x \in DOMAIN done \cup {c.metaData} |->
                    IF x = c.metaData THEN how ELSE done[x]]

\* CallbackStore with metaData captured by reference: the callback reads
\* whatever submitData's parameter holds when it runs.
CallbackStoreRefCapture ==
    /\ mtx = Callback
    /\ cb.phase = "try"
    /\ completedInferenceResults' =
            Emplace(completedInferenceResults, cb.frameID,
                    [frameId |-> cb.frameID, metaData |-> metaData])
    /\ setRequestIdle(cb.request)
    /\ done' = Ended(cb, "ok")
    /\ cb' = [cb EXCEPT !.phase = "exit"]
    /\ lastAcc' = Access(Callback, {"completedInferenceResults", "idle"})
    /\ UNCHANGED <<inputFrameId, outputFrameId, callbackException, mtx, pc, callerVars,
                   inflight, accepted, returned, failures>>

\* CallbackStore without line 115: the result is stored and the request is
\* left busy.
CallbackStoreNoRelease ==
    /\ mtx = Callback
    /\ cb.phase = "try"
    /\ completedInferenceResults' =
            Emplace(completedInferenceResults, cb.frameID,
                    [frameId |-> cb.frameID, metaData |-> cb.metaData])
    /\ done' = Ended(cb, "ok")
    /\ cb' = [cb EXCEPT !.phase = "exit"]
    /\ lastAcc' = Access(Callback, {"completedInferenceResults", "idle"})
    /\ UNCHANGED <<inputFrameId, outputFrameId, callbackException, idle, mtx, pc,
                   callerVars, inflight, accepted, returned, failures>>

\* Lines 105-115: the try block runs to its end.
CallbackStore ==
    /\ mtx = Callback
    /\ cb.phase = "try"
    /\ completedInferenceResults' =
            Emplace(completedInferenceResults, cb.frameID,
                    [frameId |-> cb.frameID, metaData |-> cb.metaData])
    /\ setRequestIdle(cb.request)
    /\ done' = Ended(cb, "ok")
    /\ cb' = [cb EXCEPT !.phase = "exit"]
    /\ lastAcc' = Access(Callback, {"completedInferenceResults", "idle"})
    /\ UNCHANGED <<inputFrameId, outputFrameId, callbackException, mtx, pc, callerVars,
                   inflight, accepted, returned, failures>>

\* CatchException without `if (!this->callbackException)`: the last
\* exception overwrites the stored one.
CatchExceptionOverwrite(e) ==
    /\ callbackException' = e
    /\ failures' = Append(failures, e)

\* Lines 117-121: the catch block.
CatchException(e) ==
    /\ callbackException' = IF callbackException = Null THEN e ELSE callbackException
    /\ failures' = Append(failures, e)

\* CallbackFailCopy with setRequestIdle in the catch block: the request of
\* the failed callback is set idle.
CallbackFailCopyRelease(e) ==
    /\ mtx = Callback
    /\ cb.phase = "try"
    /\ CatchException(e)
    /\ setRequestIdle(cb.request)
    /\ done' = Ended(cb, "failcopy")
    /\ cb' = [cb EXCEPT !.phase = "exit"]
    /\ lastAcc' = Access(Callback, {"callbackException"})
    /\ UNCHANGED <<inputFrameId, outputFrameId, completedInferenceResults, mtx,
                   pc, callerVars, inflight, accepted, returned>>

\* Lines 105-113 throw (copying the outputs, or the emplace itself): nothing
\* is stored, the request is not set idle, the catch block runs.
CallbackFailCopy(e) ==
    /\ mtx = Callback
    /\ cb.phase = "try"
    /\ CatchException(e)
    /\ done' = Ended(cb, "failcopy")
    /\ cb' = [cb EXCEPT !.phase = "exit"]
    /\ lastAcc' = Access(Callback, {"callbackException"})
    /\ UNCHANGED <<inputFrameId, outputFrameId, completedInferenceResults, idle, mtx,
                   pc, callerVars, inflight, accepted, returned>>

\* Line 115 throws: the result is stored, the request is not set idle, the
\* catch block runs.
CallbackFailRelease(e) ==
    /\ mtx = Callback
    /\ cb.phase = "try"
    /\ completedInferenceResults' =
            Emplace(completedInferenceResults, cb.frameID,
                    [frameId |-> cb.frameID, metaData |-> cb.metaData])
    /\ CatchException(e)
    /\ done' = Ended(cb, "failrelease")
    /\ cb' = [cb EXCEPT !.phase = "exit"]
    /\ lastAcc' = Access(Callback, {"completedInferenceResults", "callbackException"})
    /\ UNCHANGED <<inputFrameId, outputFrameId, idle, mtx, pc, callerVars, inflight,
                   accepted, returned>>

\* CallbackExit without condVar.notify_one(): the callback unlocks and ends.
CallbackExitNoNotify ==
    /\ mtx = Callback
    /\ cb.phase = "exit"
    /\ mtx' = Free
    /\ cb' = NoCallback
    /\ lastAcc' = NoAccess
    /\ UNCHANGED <<pipeVars, pc, callerVars, inflight, histVars>>

\* Lines 122-123: the lock_guard's scope ends, then condVar.notify_one()
\* wakes the caller if it is blocked in wait.
CallbackExit ==
    /\ mtx = Callback
    /\ cb.phase = "exit"
    /\ mtx' = Free
    /\ cb' = NoCallback
    /\ pc' = IF pc = "wait_blocked" THEN "wait_woken" ELSE pc
    /\ lastAcc' = NoAccess
    /\ UNCHANGED <<pipeVars, callerVars, inflight, histVars>>

\* --------------------------------------------------------- waitForData

\* Lines 75-76 (unique_lock), and the re-lock inside condVar.wait after a wake.
WaitLock ==
    /\ pc \in {"idle", "wait_woken"}
    /\ mtx = Free
    /\ mtx' = Caller
    /\ pc' = IF pc = "idle" THEN "wait_check" ELSE "wait_recheck"
    /\ lastAcc' = NoAccess
    /\ UNCHANGED <<pipeVars, callerVars, inflight, cb, histVars>>

\* WaitCheck as `if (!pred()) wait(lock);`: the predicate is not evaluated
\* again after a wake.
WaitCheckOnce ==
    /\ pc \in {"wait_check", "wait_recheck"}
    /\ pc' = IF WaitPredicate \/ pc = "wait_recheck" THEN "wait_passed" ELSE "wait_wait"
    /\ lastAcc' = Access(Caller, {"callbackException", "idle",
                                  "completedInferenceResults", "outputFrameId"})
    /\ UNCHANGED <<pipeVars, mtx, callerVars, inflight, cb, histVars>>

\* Lines 78-81: condVar.wait(lock, pred) is `while (!pred()) wait(lock);`:
\* it evaluates pred with the mutex held, on entry and after every wake.
WaitCheck ==
    /\ pc \in {"wait_check", "wait_recheck"}
    /\ pc' = IF WaitPredicate THEN "wait_passed" ELSE "wait_wait"
    /\ lastAcc' = Access(Caller, {"callbackException", "idle",
                                  "completedInferenceResults", "outputFrameId"})
    /\ UNCHANGED <<pipeVars, mtx, callerVars, inflight, cb, histVars>>

\* Line 78, pred was false: condVar.wait(lock) unlocks the mutex and blocks.
WaitBlock ==
    /\ pc = "wait_wait"
    /\ mtx' = Free
    /\ pc' = "wait_blocked"
    /\ lastAcc' = NoAccess
    /\ UNCHANGED <<pipeVars, callerVars, inflight, cb, histVars>>

\* A condition variable may wake without a notification.
SpuriousWake ==
    /\ pc = "wait_blocked"
    /\ pc' = "wait_woken"
    /\ lastAcc' = NoAccess
    /\ UNCHANGED <<pipeVars, mtx, callerVars, inflight, cb, histVars>>

\* Lines 83-84: rethrow the stored exception, if there is one.
WaitRethrow ==
    /\ pc = "wait_passed"
    /\ thrown' = callbackException
    /\ pc' = "wait_exit"
    /\ lastAcc' = Access(Caller, {"callbackException"})
    /\ UNCHANGED <<pipeVars, mtx, frameID, request, metaData, retVal, submitRet,
                   inflight, cb, histVars>>

\* Line 85: the unique_lock's scope ends, by return or by the throw.
WaitUnlock ==
    /\ pc = "wait_exit"
    /\ mtx' = Free
    /\ pc' = "idle"
    /\ thrown' = Null
    /\ lastAcc' = NoAccess
    /\ UNCHANGED <<pipeVars, frameID, request, metaData, retVal, submitRet,
                   inflight, cb, histVars>>

\* ----------------------------------------- getResult / getInferenceResult

\* GetLock without the lock_guard: getInferenceResult goes on without the mutex.
GetNoLock ==
    /\ pc = "idle"
    /\ pc' = "get_find"
    /\ retVal' = EmptyResult
    /\ lastAcc' = NoAccess
    /\ UNCHANGED <<pipeVars, mtx, frameID, request, metaData, submitRet, thrown,
                   inflight, cb, histVars>>

\* Lines 134-135, 147-149: the call, an empty retVal, the lock_guard.
GetLock ==
    /\ pc = "idle"
    /\ mtx = Free
    /\ mtx' = Caller
    /\ pc' = "get_find"
    /\ retVal' = EmptyResult
    /\ lastAcc' = NoAccess
    /\ UNCHANGED <<pipeVars, frameID, request, metaData, submitRet, thrown,
                   inflight, cb, histVars>>

\* GetFind with `completedInferenceResults.begin()` in the place of
\* `find(outputFrameId)`: any stored result is handed out.
GetFindAny ==
    /\ pc = "get_find"
    /\ \/ \E k \in DOMAIN completedInferenceResults :
            /\ retVal' = completedInferenceResults[k]
            /\ completedInferenceResults' = Erase(completedInferenceResults, k)
       \/ /\ DOMAIN completedInferenceResults = {}
          /\ UNCHANGED <<retVal, completedInferenceResults>>
    /\ pc' = "get_advance"
    /\ lastAcc' = Access(Caller, {"completedInferenceResults", "outputFrameId"})
    /\ UNCHANGED <<inputFrameId, outputFrameId, callbackException, idle, mtx, frameID,
                   request, metaData, submitRet, thrown, inflight, cb, histVars>>

\* Lines 151-156: find outputFrameId; move the entry out and erase it.
GetFind ==
    /\ pc = "get_find"
    /\ IF outputFrameId \in DOMAIN completedInferenceResults
       THEN /\ retVal' = completedInferenceResults[outputFrameId]
            /\ completedInferenceResults' = Erase(completedInferenceResults, outputFrameId)
       ELSE UNCHANGED <<retVal, completedInferenceResults>>
    /\ pc' = "get_advance"
    /\ lastAcc' = Access(Caller, {"completedInferenceResults", "outputFrameId"})
    /\ UNCHANGED <<inputFrameId, outputFrameId, callbackException, idle, mtx, frameID,
                   request, metaData, submitRet, thrown, inflight, cb, histVars>>

\* Lines 157-166 and 136-143: the lock_guard's scope ends; then advance
\* outputFrameId past a non-empty result and return it (postprocess copies
\* frameId and metaData into the result).
GetAdvance ==
    /\ pc = "get_advance"
    /\ mtx' = Free
    /\ IF ~IsEmpty(retVal)
       THEN /\ \E nxt \in Increment(retVal.frameId) : outputFrameId' = nxt
            /\ returned' = Append(returned, retVal)
            /\ lastAcc' = Access(Caller, {"outputFrameId"})
       ELSE /\ UNCHANGED <<outputFrameId, returned>>
            /\ lastAcc' = NoAccess
    /\ pc' = "idle"
    /\ retVal' = EmptyResult
    /\ UNCHANGED <<inputFrameId, completedInferenceResults, callbackException, idle,
                   frameID, request, metaData, submitRet, thrown, inflight, cb,
                   accepted, failures, done>>

\* ------------------------------------------------------- ~AsyncPipeline

\* Lines 71-72: the destructor calls waitForTotalCompletion.
Destroy ==
    /\ pc = "idle"
    /\ pc' = "dtor_wait"
    /\ lastAcc' = NoAccess
    /\ UNCHANGED <<pipeVars, mtx, callerVars, inflight, cb, histVars>>

\* waitForTotalCompletion: drains the pool, that is, returns once no request
\* is busy.
waitForTotalCompletion == \A r \in Slots : idle[r]

\* Lines 72-73: waitForTotalCompletion has returned and the destructor ends;
\* the members (mutex, condition variable, map, pool) are destroyed.
DestroyReturn ==
    /\ pc = "dtor_wait"
    /\ waitForTotalCompletion
    /\ pc' = "destroyed"
    /\ lastAcc' = NoAccess
    /\ UNCHANGED <<pipeVars, mtx, callerVars, inflight, cb, histVars>>

\* ---------------------------------------------------------------- Next

Next ==
    \/ \E m \in Metas : SubmitAcquire(m)
    \/ SubmitStart
    \/ SubmitReturn
    \/ \E r \in Slots : CallbackLock(r)
    \/ CallbackStore
    \/ \E e \in Errors : CallbackFailCopy(e)
    \/ \E e \in Errors : CallbackFailRelease(e)
    \/ CallbackExit
    \/ WaitLock
    \/ WaitCheck
    \/ WaitBlock
    \/ SpuriousWake
    \/ WaitRethrow
    \/ WaitUnlock
    \/ GetLock
    \/ GetFind
    \/ GetAdvance
    \/ Destroy
    \/ DestroyReturn

Spec == Init /\ [][Next]_vars

\* A callback takes the mutex (line 102).
CallbackBegin == \E r \in Slots : CallbackLock(r)

\* The steps of a callback that holds the mutex (lines 104-123).
CallbackRun ==
    \/ CallbackStore
    \/ \E e \in Errors : CallbackFailCopy(e) \/ CallbackFailRelease(e)
    \/ CallbackExit

\* The steps of waitForData that the calling thread takes by itself (a
\* spurious wake is not one of them: nothing promises it).
WaitStep == WaitLock \/ WaitCheck \/ WaitBlock \/ WaitRethrow \/ WaitUnlock

\* The pipeline with its scheduling: while callbacks are registered one of
\* them eventually runs (it gets the mutex although the caller takes it again
\* and again), a running callback runs to its end, and a thread in
\* waitForData that can take a step takes it.
FairSpec ==
    /\ Spec
    /\ SF_vars(CallbackBegin)
    /\ WF_vars(CallbackRun)
    /\ WF_vars(WaitStep)

\* ============================================================== claims

\* The submissions whose callback stored a result (ran line 114).
Stored == {i \in DOMAIN done : done[i] # "failcopy"}

\* The submissions whose callback released its request (ran line 115).
Released == {i \in DOMAIN done : done[i] = "ok"}

\* No frame id has been handed out twice: the accepted submissions fit in
\* the range 0..MaxFrameId of the counter.
NoReuse == Len(accepted) <= MaxFrameId + 1

\* getInferenceResult has taken this result out of the map and has not yet
\* returned it.
InTransit(r) == pc = "get_advance" /\ retVal = r

\* C1: as long as no frame id has been handed out twice, the accepted
\* submissions are numbered 0, 1, 2, ... in submission order, the non-empty
\* results getResult has returned carry the numbers 0, 1, 2, ... of the first
\* accepted submissions in exactly that order, and every result that was
\* stored for a later number and not yet returned is still in the map (or is
\* on its way out, being the next one).
C1_ResultsInSubmissionOrder ==
    NoReuse =>
        /\ \A i \in 1..Len(accepted) : accepted[i].frameId = i - 1
        /\ Len(returned) <= Len(accepted)
        /\ \A i \in 1..Len(returned) : returned[i].frameId = i - 1
        /\ \A i \in (Len(returned) + 1)..Len(accepted) :
              i \in Stored =>
                 \/ (i - 1) \in DOMAIN completedInferenceResults
                 \/ (i = Len(returned) + 1 /\ pc = "get_advance" /\ retVal.frameId = i - 1)

\* C1 witness: the second submission has completed before the first, its
\* result is held in the map, a getResult call found nothing for number 0
\* and returns an empty result.
C1_Witness ==
    /\ 2 \in Stored
    /\ 1 \notin DOMAIN done
    /\ 1 \in DOMAIN completedInferenceResults
    /\ pc = "get_advance"
    /\ IsEmpty(retVal)
    /\ returned = <<>>

C3_FirstExceptionWins ==
    /\ callbackException = (IF failures = <<>> THEN Null ELSE failures[1])
    /\ (pc = "wait_exit" /\ failures # <<>>) => thrown = failures[1]

\* C3 witness: two callbacks failed with different exceptions and
\* waitForData throws the first.
C3_Witness ==
    /\ Len(failures) >= 2
    /\ failures[1] # failures[2]
    /\ pc = "wait_exit"
    /\ thrown = failures[1]

\* C4: waitForData gets past its wait only in a state where the wait
\* predicate holds (exception stored, or a request idle, or a result for
\* outputFrameId in the map); it throws exactly when the exception slot is
\* non-empty then, which is the case in every call that ends after a callback
\* has failed.
C4_WaitPredicateAndRethrow ==
    /\ pc \in {"wait_passed", "wait_exit"} => (mtx = Caller /\ WaitPredicate)
    /\ pc = "wait_exit" => ((thrown # Null) <=> (callbackException # Null))
    /\ (pc = "wait_exit" /\ failures # <<>>) => thrown # Null

\* C4 witness: waitForData throws although a request is idle and the result
\* for outputFrameId is in the map.
C4_Witness ==
    /\ pc = "wait_exit"
    /\ thrown # Null
    /\ isIdleRequestAvailable
    /\ outputFrameId \in DOMAIN completedInferenceResults

\* The frame id and metadata handle of the n-th accepted submission are in
\* the map as its result.
InMap(r) ==
    /\ r.frameId \in DOMAIN completedInferenceResults
    /\ completedInferenceResults[r.frameId] = r

\* In how many places the result of the n-th accepted submission is: the
\* map, getInferenceResult's retVal, the results already returned.
Places(i) ==
    (IF InMap(accepted[i]) THEN 1 ELSE 0)
    + (IF InTransit(accepted[i]) THEN 1 ELSE 0)
    + Cardinality({k \in 1..Len(returned) : returned[k] = accepted[i]})

\* C5 as stated: with a pool smaller than the range of the counter, a frame
\* id is handed to a new submission only after the result of the previous
\* submission with that id has been returned, and a callback never asks the
\* map to hold a second entry for an id it holds.
C5_NumberReusedOnlyAfterRetrieval ==
    PoolSize < MaxFrameId + 1 =>
        /\ \A i, j \in 1..Len(accepted) :
              (i < j /\ accepted[i].frameId = accepted[j].frameId)
                 => \E k \in 1..Len(returned) : returned[k] = accepted[i]
        /\ cb.phase = "try" => cb.frameID \notin DOMAIN completedInferenceResults

\* C6 as stated: the result of an accepted submission is never in two places,
\* and once its callback has run without failing it is in exactly one: in
\* the map, on its way out of getInferenceResult, or returned (once).
C6_ExactlyOneResultPerSubmission ==
    \A i \in 1..Len(accepted) :
        /\ Places(i) <= 1
        /\ i \in Released => Places(i) = 1

\* C7 as stated: the submission accepted at the largest counter value gets
\* that value and leaves the input counter at 0, so the next one gets 0; the
\* output counter is 0 after the result with the largest value was returned;
\* and the results keep coming out in submission order across the wrap.
C7_WrapsToZeroInOrder ==
    /\ \A i \in 1..Len(accepted) :
          /\ (accepted[i].frameId = MaxFrameId /\ i < Len(accepted))
                => accepted[i + 1].frameId = 0
          /\ (accepted[i].frameId = MaxFrameId /\ i = Len(accepted))
                => inputFrameId = 0
    /\ (returned # <<>> /\ returned[Len(returned)].frameId = MaxFrameId)
          => outputFrameId = 0
    /\ Len(returned) <= Len(accepted)
    /\ \A i \in 1..Len(returned) : returned[i].frameId = accepted[i].frameId

\* C8: every result in the map or returned by getResult carries the frame id
\* and the metadata handle of one and the same accepted submission; and as
\* long as no frame id has been handed out twice, the result returned for a
\* frame id carries the metadata handle that was passed with that frame id.
C8_MetadataRoundTrip ==
    /\ \A k \in DOMAIN completedInferenceResults :
          /\ completedInferenceResults[k].frameId = k
          /\ \E i \in 1..Len(accepted) : accepted[i] = completedInferenceResults[k]
    /\ \A k \in 1..Len(returned) :
          \E i \in 1..Len(accepted) : accepted[i] = returned[k]
    /\ NoReuse =>
          \A k \in 1..Len(returned) : \A i \in 1..Len(accepted) :
              accepted[i].frameId = returned[k].frameId
                 => returned[k].metaData = accepted[i].metaData

\* C8 witness: more results than the pool has requests were returned, the
\* last one from a request that was used before, with its own metadata.
C8_Witness ==
    /\ NoReuse
    /\ Len(returned) = PoolSize + 1
    /\ returned[PoolSize + 1] = accepted[PoolSize + 1]
    /\ returned[PoolSize + 1].metaData = PoolSize + 1

\* C9 as stated: whoever touched the map, the request flags, a counter or the
\* exception slot in the last step holds the mutex.
C9_EveryAccessUnderMutex ==
    lastAcc.vars # {} => mtx = lastAcc.who

\* C9 amended: the map and the exception slot are touched only by the holder
\* of the mutex, and so is everything the callback and waitForData touch; the
\* only accesses without the mutex are the caller thread's, to the counters
\* and (in submitData) to the request flags, and the counters are touched by
\* the caller thread alone.
C9_MapAndExceptionUnderMutex ==
    /\ (lastAcc.vars \cap {"completedInferenceResults", "callbackException"} # {})
          => mtx = lastAcc.who
    /\ (lastAcc.who = Callback /\ lastAcc.vars # {}) => mtx = Callback
    /\ (lastAcc.vars # {} /\ pc \in {"wait_passed", "wait_wait", "wait_exit"})
          => mtx = Caller
    /\ (lastAcc.vars \cap {"inputFrameId", "outputFrameId"} # {})
          => lastAcc.who = Caller
    /\ (lastAcc.vars # {} /\ mtx # lastAcc.who)
          => /\ lastAcc.who = Caller
             /\ lastAcc.vars \subseteq {"inputFrameId", "outputFrameId", "idle"}

\* C9 witness: a callback stores its result with the mutex held while
\* submitData is between its unlocked steps.
C9_Witness ==
    /\ lastAcc.who = Callback
    /\ "completedInferenceResults" \in lastAcc.vars
    /\ mtx = Callback
    /\ pc = "sub_start"

\* C10 as stated: every request taken by submitData is given back exactly
\* once when its callback has run: the busy requests are those of the
\* submissions whose callback has not yet been through its try block (and the
\* one submitData holds between taking it and starting it).
C10_EveryAcquisitionReleased ==
    Cardinality({r \in Slots : ~idle[r]})
        = (Len(accepted) - Cardinality(DOMAIN done))
          + (IF pc = "sub_start" THEN 1 ELSE 0)

\* C11 as stated: the map never holds more results than the pool has requests.
C11_MapBoundedByPoolSize ==
    Cardinality(DOMAIN completedInferenceResults) <= PoolSize

\* No completion callback is registered on a request or running.
NoCallbackLeft ==
    /\ cb = NoCallback
    /\ \A r \in Slots : inflight[r] = NoCallback

\* C12 as stated: the destructor has returned only with every request idle;
\* it is not left waiting once the callback of every started request has run;
\* and no callback is running or still to run after it has returned.
C12_DestructorDrains ==
    /\ pc = "destroyed" => \A r \in Slots : idle[r]
    /\ (pc = "dtor_wait" /\ NoCallbackLeft) => waitForTotalCompletion
    /\ pc = "destroyed" => NoCallbackLeft

\* C13: a caller blocked in waitForData eventually leaves it (returning or
\* rethrowing), and a callback wakes it only after its update: the woken
\* caller finds the wait predicate true.
C13_NoLostWakeUp ==
    /\ (pc = "wait_blocked") ~> (pc = "wait_exit")
    /\ [][(pc = "wait_blocked" /\ pc' = "wait_woken" /\ cb' # cb)
            => (cb.phase = "exit" /\ WaitPredicate')]_vars

\* The caller is blocked with every request busy, nothing stored for the
\* output cursor and no exception, while a callback is still to run.
C13_Witness ==
    /\ pc = "wait_blocked"
    /\ \A r \in Slots : ~idle[r]
    /\ outputFrameId \notin DOMAIN completedInferenceResults
    /\ callbackException = Null
    /\ \E r \in Slots : inflight[r].phase = "started"

\* C14 as stated: both cursors are never negative, and submitData returns
\* REJECTED or a non-negative number.
C14_CursorsNonNegative ==
    /\ inputFrameId >= 0
    /\ outputFrameId >= 0
    /\ pc = "sub_return" => (submitRet = REJECTED \/ submitRet >= 0)

\* C15: a rejected submitData leaves both cursors, the map, the pool, the
\* exception, the registered callbacks and the running callback as they were,
\* and the accepted submissions are numbered 0, 1, 2, ... without a gap (up to
\* the largest frame id).
C15_RejectionChangesNothing ==
    /\ [][(pc = "idle" /\ pc' = "sub_return")
            => /\ submitRet' = REJECTED
               /\ UNCHANGED <<pipeVars, mtx, inflight, cb, accepted>>]_vars
    /\ [](Len(accepted) > 0 => accepted[1].frameId = 0)
    /\ [](\A i \in 1..(Len(accepted) - 1) :
            accepted[i].frameId < MaxFrameId
                => accepted[i + 1].frameId = accepted[i].frameId + 1)

\* submitData has just been rejected with every request busy, after more
\* calls were accepted than the pool has requests.
C15_Witness ==
    /\ pc = "sub_return"
    /\ submitRet = REJECTED
    /\ Len(accepted) > PoolSize
    /\ \A r \in Slots : ~idle[r]

\* C16 as stated: when the map has no entry for outputFrameId, getResult
\* returns an empty result and changes neither the cursor nor the map; when it
\* has one, getResult removes exactly that entry and moves the cursor on by
\* one, from the largest frame id to 0.
C16_GetResultStep ==
    /\ [][(pc = "get_find" /\ pc' = "get_advance")
            => IF outputFrameId \in DOMAIN completedInferenceResults
               THEN /\ retVal' = completedInferenceResults[outputFrameId]
                    /\ completedInferenceResults' =
                            Erase(completedInferenceResults, outputFrameId)
               ELSE /\ IsEmpty(retVal')
                    /\ UNCHANGED <<outputFrameId, completedInferenceResults>>]_vars
    /\ [][(pc = "get_advance" /\ pc' = "idle")
            => /\ UNCHANGED completedInferenceResults
               /\ IF IsEmpty(retVal)
                  THEN /\ UNCHANGED <<outputFrameId, returned>>
                  ELSE /\ returned' = Append(returned, retVal)
                       /\ outputFrameId' = IF outputFrameId = MaxFrameId
                                           THEN 0 ELSE outputFrameId + 1]_vars

\* C17 as stated: a request is set idle only by the callback that holds the
\* mutex and in the step that stores its result, and whenever the callback of
\* a submission has set its request idle, the result of that submission is in
\* the map or has been taken out of it by getResult.
C17_IdleOnlyAfterStored ==
    /\ [][\A r \in Slots : (~idle[r] /\ idle'[r])
            => /\ mtx = Callback /\ mtx' = Callback
               /\ cb.request = r
               /\ cb.frameID \in DOMAIN completedInferenceResults']_vars
    /\ [](\A i \in Released :
            \/ InMap(accepted[i])
            \/ InTransit(accepted[i])
            \/ \E k \in 1..Len(returned) : returned[k] = accepted[i])

\* The input cursor has not wrapped: fewer submissions were accepted than
\* there are frame ids up to the largest.
NoWrap == Len(accepted) <= MaxFrameId

\* The requests that are busy.
Busy == {r \in Slots : ~idle[r]}

\* The accepted submissions, the one in progress in submitData (it holds its
\* request, lines 90-92) included.
AcceptedCount == Len(accepted) + (IF pc = "sub_start" THEN 1 ELSE 0)

\* The results getResult has taken out of the map, the one on its way out of
\* getInferenceResult (lines 154-155) included.
ReturnedCount ==
    Len(returned) + (IF pc = "get_advance" /\ ~IsEmpty(retVal) THEN 1 ELSE 0)

\* C18: with no exception stored and before the input cursor wraps, every
\* accepted submission is returned, stored in the map or holds a busy
\* request, exactly one of the three; no more requests are busy than the pool
\* has; and the output cursor is not ahead of the input cursor.
C18_Conservation ==
    (callbackException = Null /\ NoWrap) =>
        /\ AcceptedCount = ReturnedCount
                           + Cardinality(DOMAIN completedInferenceResults)
                           + Cardinality(Busy)
        /\ Cardinality(Busy) <= PoolSize
        /\ outputFrameId <= inputFrameId

\* No exception, no wrap, and all three terms are positive: a result was
\* returned, another is stored, a third submission holds a busy request.
C18_Witness ==
    /\ callbackException = Null
    /\ NoWrap
    /\ Len(returned) > 0
    /\ DOMAIN completedInferenceResults # {}
    /\ Busy # {}
    /\ pc = "idle"

\* The submissions whose callback threw before it stored a result.
FailedBeforeStore == {i \in DOMAIN done : done[i] = "failcopy"}

\* The submissions that hold a request and whose callback has not ended: in
\* submitData, registered, or running its try block.
Pending ==
    (IF pc = "sub_start" THEN 1 ELSE 0)
    + Cardinality({r \in Slots : inflight[r] # NoCallback})
    + (IF cb.phase = "try" THEN 1 ELSE 0)

\* C19: once the callback of a submission has thrown before storing its
\* result, that result is never stored or returned and the request stays busy
\* (the busy requests are those of the submissions still pending and of the
\* failed ones); before the input cursor wraps, the output cursor never
\* passes the frame id N of that submission, the map has no entry for N, and
\* every result returned or on its way out of getResult has a frame id below
\* N (the results of later submissions stay in the map).
C19_FailureBlocksLaterResults ==
    /\ Cardinality(Busy)
         = Pending + Cardinality({i \in DOMAIN done : done[i] # "ok"})
    /\ \A i \in FailedBeforeStore :
          /\ ~InMap(accepted[i])
          /\ ~InTransit(accepted[i])
          /\ \A k \in 1..Len(returned) : returned[k] # accepted[i]
          /\ NoWrap =>
                /\ accepted[i].frameId \notin DOMAIN completedInferenceResults
                /\ outputFrameId <= accepted[i].frameId
                /\ \A k \in 1..Len(returned) :
                      returned[k].frameId < accepted[i].frameId
                /\ (pc = "get_advance" /\ ~IsEmpty(retVal))
                      => retVal.frameId < accepted[i].frameId

\* Before any wrap the callback of frame id N = outputFrameId has thrown
\* before storing, a result of a later submission is in the map, and
\* getResult has just found nothing to return.
C19_Witness ==
    /\ NoWrap
    /\ \E i \in FailedBeforeStore :
          /\ accepted[i].frameId = outputFrameId
          /\ i > 1
          /\ \E k \in DOMAIN completedInferenceResults : k > accepted[i].frameId
    /\ Len(returned) > 0
    /\ pc = "get_advance"
    /\ IsEmpty(retVal)

====
